---- MODULE Spec2Model ----
(***************************************************************************)
(* StickyRolo (src/Code.js): the hierarchical metadata parser              *)
(* parseBodyContent with its helper processBuffer and the description      *)
(* backfill pass, its caller-facing wrapper getMetadataContent, and the    *)
(* context extractor getCurrentContext.                                    *)
(*                                                                         *)
(* Strings are sequences of one-character strings, so that trim, includes, *)
(* startsWith, split and join are computed the way the script computes     *)
(* them.  An image URL is an opaque string, Null when absent.              *)
(*                                                                         *)
(* A line's style is 0 for NORMAL_TEXT (and any style that is no heading)  *)
(* and L for HEADING_L.  Entry names in the documents drawn here are not   *)
(* integer-like, so Object.keys lists them in insertion order.             *)
(*                                                                         *)
(* Code.js declares every function twice (lines 1-368 and 369-709).  The   *)
(* two declarations of processBuffer differ in the leading trim; the       *)
(* variable defn records which declaration the run uses.                   *)
(***************************************************************************)
EXTENDS Integers, Sequences, FiniteSets, TLC

(* ---------------------------- bounds ---------------------------------- *)
MaxLines == 4
MaxLevel == 3
MaxPasses == 2
MaxPropLines == 4
MaxImageLines == 4
MaxLookaround == 2
MaxTabs == 2

(* ------------------------- string helpers ------------------------------ *)
Null == "null"

NORMAL_TEXT == 0

PathSep == <<" ", ">", " ">>

ListSep == <<",", " ">>

EntriesPrefix == <<"E", "n", "t", "r", "i", "e", "s", ":", " ">>

RECURSIVE Join(_, _)
Join(parts, sep) ==
  IF parts = <<>> THEN <<>>
  ELSE IF Len(parts) = 1 THEN parts[1]
  ELSE parts[1] \o sep \o Join(Tail(parts), sep)

Includes(s, c) == \E i \in 1..Len(s) : s[i] = c

StartsWith(s, c) == Len(s) > 0 /\ s[1] = c

RECURSIVE TrimStart(_)
TrimStart(s) ==
  IF s # <<>> /\ s[1] = " " THEN TrimStart(Tail(s)) ELSE s

RECURSIVE TrimEnd(_)
TrimEnd(s) ==
  IF s # <<>> /\ s[Len(s)] = " " THEN TrimEnd(SubSeq(s, 1, Len(s) - 1)) ELSE s

Trim(s) == TrimEnd(TrimStart(s))

RECURSIVE Split(_, _)
Split(s, c) ==
  IF ~Includes(s, c) THEN <<s>>
  ELSE LET i == CHOOSE k \in 1..Len(s) :
                   s[k] = c /\ \A j \in 1..(k - 1) : s[j] # c
       IN  <<SubSeq(s, 1, i - 1)>> \o Split(SubSeq(s, i + 1, Len(s)), c)

Slice(s, from, to) ==
  SubSeq(s, from + 1, IF to < Len(s) THEN to ELSE Len(s))

(* ------------------------------ blocks --------------------------------- *)
Block(t, st, img) == [text |-> t, style |-> st, imageUrl |-> img]

IsHeading(b) == b.style \in 1..9

IsBlank(b) == b.text = <<>> /\ b.imageUrl = Null

(* --------------------------- processBuffer ----------------------------- *)
RECURSIVE LeadingTrimAnyImage(_)
LeadingTrimAnyImage(buf) ==
  IF Len(buf) > 0 /\ buf[1].text = <<>>
  THEN LeadingTrimAnyImage(Tail(buf))
  ELSE buf

RECURSIVE LeadingTrimNoImage(_)
LeadingTrimNoImage(buf) ==
  IF Len(buf) > 0 /\ buf[1].text = <<>> /\ buf[1].imageUrl = Null
  THEN LeadingTrimNoImage(Tail(buf))
  ELSE buf

LeadingTrim(d, buf) ==
  IF d = 1 THEN LeadingTrimNoImage(buf) ELSE LeadingTrimAnyImage(buf)

DescriptionOf(buf) ==
  IF Len(buf) > 1 /\ ~Includes(buf[2].text, ":") /\ ~StartsWith(buf[2].text, "_")
  THEN buf[2].text
  ELSE <<>>

HeadImage(buf) ==
  IF buf[1].imageUrl # Null THEN buf[1].imageUrl
  ELSE IF Len(buf) > 1 /\ buf[2].imageUrl # Null THEN buf[2].imageUrl
  ELSE Null

StartIndexAfterSecond(buf) == 2

StartIndex(buf) == IF DescriptionOf(buf) # <<>> THEN 2 ELSE 1

LineImage(found, b) ==
  IF found = Null /\ b.imageUrl # Null THEN b.imageUrl ELSE found

IsStopMarkerNever(line) == FALSE

IsStopMarker(line) == StartsWith(line, "_")

PropKey(line) == Trim(Split(line, ":")[1])

PropValSecondPart(line) ==
  IF Len(Split(line, ":")) > 1 THEN Trim(Split(line, ":")[2]) ELSE <<>>

PropVal(line) == Trim(Join(Tail(Split(line, ":")), <<":">>))

SetProp(props, line) ==
  IF Includes(line, ":") /\ PropKey(line) # <<>> /\ PropVal(line) # <<>>
  THEN (PropKey(line) :> PropVal(line)) @@ props
  ELSE props

RECURSIVE ScanImagesPastMarker(_, _, _, _)
ScanImagesPastMarker(buf, i, props, found) ==
  IF i >= Len(buf) THEN [properties |-> props, imageUrl |-> found]
  ELSE LET b == buf[i + 1]
           img == LineImage(found, b)
       IN  IF IsStopMarker(b.text)
           THEN ScanImagesPastMarker(buf, i + 1, props, img)
           ELSE ScanImagesPastMarker(buf, i + 1, SetProp(props, b.text), img)

RECURSIVE Scan(_, _, _, _)
Scan(buf, i, props, found) ==
  IF i >= Len(buf) THEN [properties |-> props, imageUrl |-> found]
  ELSE LET b == buf[i + 1]
           img == LineImage(found, b)
       IN  IF IsStopMarker(b.text)
           THEN [properties |-> props, imageUrl |-> img]
           ELSE Scan(buf, i + 1, SetProp(props, b.text), img)

EntryOf(buf, pathStr) ==
  LET r == Scan(buf, StartIndex(buf), <<>>, HeadImage(buf))
  IN  [description |-> DescriptionOf(buf),
       properties  |-> r.properties,
       category    |-> pathStr,
       imageUrl    |-> r.imageUrl]

ReturnsEarlyNever(d, buf) == FALSE

ReturnsEarly(d, buf) == Len(LeadingTrim(d, buf)) = 0

\* buf[0].text of an empty array is a TypeError; the early return precedes it.
Throws(d, buf) == ~ReturnsEarly(d, buf) /\ LeadingTrim(d, buf) = <<>>

EmitsUnnamed(d, buf) == LeadingTrim(d, buf) # <<>>

Emits(d, buf) ==
  LeadingTrim(d, buf) # <<>> /\ LeadingTrim(d, buf)[1].text # <<>>

NameOf(d, buf) == LeadingTrim(d, buf)[1].text

StoreMerging(st, name, e) ==
  [map  |-> IF name \in DOMAIN st.map
            THEN (name :> [e EXCEPT
                     !.properties = e.properties @@ st.map[name].properties,
                     !.imageUrl = IF e.imageUrl # Null THEN e.imageUrl
                                  ELSE st.map[name].imageUrl]) @@ st.map
            ELSE (name :> e) @@ st.map,
   keys |-> IF name \in DOMAIN st.map THEN st.keys ELSE Append(st.keys, name)]

Store(st, name, e) ==
  [map  |-> (name :> e) @@ st.map,
   keys |-> IF name \in DOMAIN st.map THEN st.keys ELSE Append(st.keys, name)]

processBuffer(d, st, buf, pathStr) ==
  IF Emits(d, buf)
  THEN Store(st, NameOf(d, buf), EntryOf(LeadingTrim(d, buf), pathStr))
  ELSE st

(* --------------------------- backfill pass ----------------------------- *)
ExpectedChildCategory(map, parentName) ==
  IF map[parentName].category # <<>>
  THEN map[parentName].category \o PathSep \o parentName
  ELSE parentName

IsChildPrefixed(map, childName, expected) ==
  /\ Len(map[childName].category) >= Len(expected)
  /\ SubSeq(map[childName].category, 1, Len(expected)) = expected

IsChildDescribed(map, childName, expected) ==
  map[childName].category = expected /\ map[childName].description # <<>>

IsChildUndescribed(map, childName, expected) ==
  map[childName].category = expected /\ map[childName].description = <<>>

IsChild(map, childName, expected) ==
  map[childName].category = expected

Children(map, keys, parentName) ==
  SelectSeq(keys, LAMBDA c : IsChild(map, c, ExpectedChildCategory(map, parentName)))

NeedsDescription(item) == Trim(item.description) = <<>>

BackfillOne(map, keys, parentName) ==
  IF NeedsDescription(map[parentName]) /\ Children(map, keys, parentName) # <<>>
  THEN [map EXCEPT ![parentName].description =
          EntriesPrefix \o Join(Children(map, keys, parentName), ListSep)]
  ELSE map

RECURSIVE BackfillFrom(_, _, _)
BackfillFrom(map, keys, i) ==
  IF i > Len(keys) THEN map
  ELSE BackfillFrom(BackfillOne(map, keys, keys[i]), keys, i + 1)

Backfill(map, keys) == BackfillFrom(map, keys, 1)

(* ------------------------------ state ---------------------------------- *)
VARIABLES
  defn,          \* which declaration of processBuffer runs (1 or 2)
  pc,            \* "scan" while lines.forEach runs, "done" after return,
                 \* "error" after an exception
  lines,         \* the normalised lines consumed so far
  buffer,        \* var buffer
  headingStack,  \* var headingStack; a hole joins as the empty string
  currentPath,   \* var currentPath
  metadata,      \* var metadata: name -> entry
  keyOrder,      \* Object.keys(metadata): insertion order
  prePass,       \* metadata as it stood when the backfill pass began
  passes,        \* number of backfill passes applied
  bufStart,      \* index in lines of the line that opened the buffer
  origin,        \* name -> the span of lines its entry was flushed from
  ctx,           \* the call of getCurrentContext: its inputs, locals, result
  wrap           \* the call of getMetadataContent: its inputs and result

vars == <<defn, pc, lines, buffer, headingStack, currentPath, metadata,
          keyOrder, prePass, passes, bufStart, origin, ctx, wrap>>

\* No call of the entry point is under way.
Idle == [pc |-> "idle"]

Init ==
  /\ defn \in {1, 2}
  /\ pc = "scan"
  /\ lines = <<>>
  /\ buffer = <<>>
  /\ headingStack = <<>>
  /\ currentPath = <<>>
  /\ metadata = <<>>
  /\ keyOrder = <<>>
  /\ prePass = <<>>
  /\ passes = 0
  /\ bufStart = 0
  /\ origin = <<>>
  /\ ctx = Idle
  /\ wrap = Idle

(* --------------------------- main loop --------------------------------- *)
SetLevelKeepDeeper(stack, level, title) ==
  [i \in 1..(IF level > Len(stack) THEN level ELSE Len(stack)) |->
     IF i = level THEN title
     ELSE IF i <= Len(stack) THEN stack[i]
     ELSE <<>>]

SetLevel(stack, level, title) ==
  [i \in 1..level |->
     IF i = level THEN title
     ELSE IF i <= Len(stack) THEN stack[i]
     ELSE <<>>]

ParentPathInclusive(stack, level) == Join(Slice(stack, 0, level), PathSep)

ParentPath(stack, level) == Join(Slice(stack, 0, level - 1), PathSep)

FullPath(stack) == Join(stack, PathSep)

Flushed ==
  IF Len(buffer) > 0
  THEN processBuffer(defn, [map |-> metadata, keys |-> keyOrder], buffer, currentPath)
  ELSE [map |-> metadata, keys |-> keyOrder]

FlushedOrigin ==
  IF Len(buffer) > 0 /\ Emits(defn, buffer)
  THEN (NameOf(defn, buffer) :> [from |-> bufStart, to |-> Len(lines)]) @@ origin
  ELSE origin

FlushThrows == Len(buffer) > 0 /\ Throws(defn, buffer)

HeadingLineNotBuffered(b) ==
  /\ pc = "scan"
  /\ IsHeading(b)
  /\ pc' = IF FlushThrows THEN "error" ELSE pc
  /\ metadata' = Flushed.map
  /\ keyOrder' = Flushed.keys
  /\ origin' = FlushedOrigin
  /\ currentPath' = ParentPath(headingStack, b.style)
  /\ buffer' = <<>>
  /\ headingStack' = SetLevel(headingStack, b.style, b.text)
  /\ lines' = Append(lines, b)
  /\ bufStart' = 0
  /\ UNCHANGED <<ctx, wrap, defn, prePass, passes>>

HeadingLine(b) ==
  /\ pc = "scan"
  /\ IsHeading(b)
  /\ pc' = IF FlushThrows THEN "error" ELSE pc
  /\ metadata' = Flushed.map
  /\ keyOrder' = Flushed.keys
  /\ origin' = FlushedOrigin
  /\ currentPath' = ParentPath(headingStack, b.style)
  /\ buffer' = <<b>>
  /\ headingStack' = SetLevel(headingStack, b.style, b.text)
  /\ lines' = Append(lines, b)
  /\ bufStart' = Len(lines) + 1
  /\ UNCHANGED <<ctx, wrap, defn, prePass, passes>>

BlankLineFallsThrough(b) ==
  /\ pc = "scan"
  /\ ~IsHeading(b)
  /\ IsBlank(b)
  /\ pc' = IF FlushThrows THEN "error" ELSE pc
  /\ metadata' = Flushed.map
  /\ keyOrder' = Flushed.keys
  /\ origin' = FlushedOrigin
  /\ buffer' = <<b>>
  /\ currentPath' = FullPath(headingStack)
  /\ lines' = Append(lines, b)
  /\ bufStart' = Len(lines) + 1
  /\ UNCHANGED <<ctx, wrap, defn, headingStack, prePass, passes>>

BlankLine(b) ==
  /\ pc = "scan"
  /\ ~IsHeading(b)
  /\ IsBlank(b)
  /\ pc' = IF FlushThrows THEN "error" ELSE pc
  /\ metadata' = Flushed.map
  /\ keyOrder' = Flushed.keys
  /\ origin' = FlushedOrigin
  /\ buffer' = <<>>
  /\ currentPath' = FullPath(headingStack)
  /\ lines' = Append(lines, b)
  /\ bufStart' = 0
  /\ UNCHANGED <<ctx, wrap, defn, headingStack, prePass, passes>>

OtherLine(b) ==
  /\ pc = "scan"
  /\ ~IsHeading(b)
  /\ ~IsBlank(b)
  /\ currentPath' = IF Len(buffer) = 0 THEN FullPath(headingStack) ELSE currentPath
  /\ buffer' = Append(buffer, b)
  /\ lines' = Append(lines, b)
  /\ bufStart' = IF Len(buffer) = 0 THEN Len(lines) + 1 ELSE bufStart
  /\ UNCHANGED <<ctx, wrap, defn, pc, headingStack, metadata, keyOrder, prePass,
                 passes, origin>>

EndOfInput ==
  /\ pc = "scan"
  /\ prePass' = Flushed.map
  /\ metadata' = Backfill(Flushed.map, Flushed.keys)
  /\ keyOrder' = Flushed.keys
  /\ origin' = FlushedOrigin
  /\ passes' = 1
  /\ pc' = IF FlushThrows THEN "error" ELSE "done"
  /\ UNCHANGED <<ctx, wrap, defn, lines, buffer, headingStack, currentPath, bufStart>>

(* ------------------- heading documents (SpecPath) ---------------------- *)
Titles == {<<"A">>, <<"B">>}

PathBlocks ==
  {Block(t, st, Null) : t \in Titles, st \in 1..MaxLevel}
    \cup {Block(<<"C">>, 1, Null),
          Block(<<>>, NORMAL_TEXT, Null),
          Block(<<"x">>, NORMAL_TEXT, Null)}

PathHeading == \E b \in PathBlocks : Len(lines) < MaxLines /\ HeadingLine(b)

PathBlank == \E b \in PathBlocks : Len(lines) < MaxLines /\ BlankLine(b)

PathOther == \E b \in PathBlocks : Len(lines) < MaxLines /\ OtherLine(b)

NextPath == PathHeading \/ PathBlank \/ PathOther \/ EndOfInput

SpecPath == Init /\ [][NextPath]_vars

(* The heading stack after the first n lines, read off the input: level l  *)
(* holds the title of the last heading of level l that no later heading of *)
(* the same or a shallower level follows; the stack is as deep as the last *)
(* heading's level.                                                        *)
HeadingsUpTo(n) == {k \in 1..n : IsHeading(lines[k])}

DepthAt(n) ==
  IF HeadingsUpTo(n) = {} THEN 0
  ELSE lines[CHOOSE k \in HeadingsUpTo(n) : \A j \in HeadingsUpTo(n) : j <= k].style

TitleAt(l, n) ==
  LET K == {k \in HeadingsUpTo(n) :
              /\ lines[k].style = l
              /\ \A j \in HeadingsUpTo(n) : j > k => lines[j].style > l}
  IN  IF K = {} THEN <<>> ELSE lines[CHOOSE k \in K : TRUE].text

StackAt(n) == [l \in 1..DepthAt(n) |-> TitleAt(l, n)]

Min(a, b) == IF a < b THEN a ELSE b

OpenPath(from) ==
  IF IsHeading(lines[from])
  THEN Join(SubSeq(StackAt(from - 1), 1,
                   Min(lines[from].style - 1, DepthAt(from - 1))), PathSep)
  ELSE Join(StackAt(from - 1), PathSep)

H(l, t) == Block(t, l, Null)

N(t) == Block(t, NORMAL_TEXT, Null)

\* C1: every entry's category is the path in effect when its buffer was
\* opened: the join of the stack levels 1..L-1 for a buffer opened by a
\* HEADING_L line, the join of the whole stack for a buffer opened by any
\* other line; later lines never change it.  For H1 "A", H2 "B", "x" the
\* entry "B" has category "A".
C1_CategoryIsOpenPath ==
  /\ \A name \in DOMAIN metadata :
       metadata[name].category = OpenPath(origin[name].from)
  /\ (pc = "done" /\ lines = <<H(1, <<"A">>), H(2, <<"B">>), N(<<"x">>)>>)
       => metadata[<<"B">>].category = <<"A">>

C1_Witness ==
  /\ pc = "done"
  /\ lines = <<H(1, <<"A">>), H(2, <<"B">>), N(<<"x">>), H(1, <<"C">>)>>
  /\ metadata[<<"B">>].category = <<"A">>
  /\ metadata[<<"C">>].category = <<>>

Mentions(s, t) ==
  \E i \in 1..(Len(s) - Len(t) + 1) : SubSeq(s, i, i + Len(t) - 1) = t

\* The title of heading k was recorded deeper than heading i's level before
\* heading i, and no other heading that could still be on the stack from
\* line i on carries the same title.
StaleAt(k, i) ==
  /\ k < i
  /\ lines[k].style > lines[i].style
  /\ \A j \in HeadingsUpTo(Len(lines)) :
       (j >= i \/ lines[j].style <= lines[i].style) => lines[j].text # lines[k].text

\* C2: after a HEADING_L line the heading stack has length exactly L and
\* holds that line's title at level L, and a title recorded deeper than L
\* before that heading is in the category of no entry opened from that
\* heading on.
C2_StackTruncated ==
  /\ Len(headingStack) = DepthAt(Len(lines))
  /\ \A i \in HeadingsUpTo(Len(lines)) :
       /\ i = Len(lines) => headingStack[lines[i].style] = lines[i].text
       /\ \A name \in DOMAIN metadata :
            origin[name].from >= i =>
              \A k \in HeadingsUpTo(i) :
                 StaleAt(k, i) => ~Mentions(metadata[name].category, lines[k].text)

C2_Witness ==
  /\ pc = "done"
  /\ lines = <<H(1, <<"A">>), H(2, <<"B">>), H(1, <<"C">>), N(<<"x">>)>>
  /\ metadata[<<"C">>].category = <<>>
  /\ Len(headingStack) = 1

DistinctTitles ==
  \A j, k \in HeadingsUpTo(Len(lines)) : j # k => lines[j].text # lines[k].text

LatestHeading(n) ==
  CHOOSE k \in HeadingsUpTo(n) : \A j \in HeadingsUpTo(n) : j <= k

\* C3: with non-empty, pairwise distinct heading titles at any levels, an
\* entry opened by a non-heading line while heading H is the most recent
\* heading has the category the backfill pass expects of H's children
\* (H.name when H.category is empty, else H.category > H.name).
C3_ChildOfLatestHeading ==
  DistinctTitles =>
    \A name \in DOMAIN metadata :
      LET from == origin[name].from IN
        (~IsHeading(lines[from]) /\ HeadingsUpTo(from) # {}) =>
          LET parent == lines[LatestHeading(from)].text IN
            (parent \in DOMAIN metadata
               /\ origin[parent].from = LatestHeading(from))
              => metadata[name].category = ExpectedChildCategory(metadata, parent)

(* ------------- the backfill pass on entry maps (SpecPass) -------------- *)
Names == {<<"A">>, <<"B">>, <<"C">>}

Descriptions == {<<>>, <<"d">>}

Categories ==
  {<<>>, <<"A">>, <<"B">>, <<"A">> \o PathSep \o <<"B">>}

Extras ==
  {[properties |-> <<>>, imageUrl |-> Null],
   [properties |-> (<<"k">> :> <<"v">>), imageUrl |-> "i1"]}

Entries ==
  {[description |-> d, properties |-> x.properties,
    category |-> c, imageUrl |-> x.imageUrl] :
     d \in Descriptions, c \in Categories, x \in Extras}

KeyOrders(S) ==
  {q \in [1..Cardinality(S) -> S] : \A i, j \in 1..Cardinality(S) : i # j => q[i] # q[j]}

InitPass ==
  /\ defn \in {1, 2}
  /\ pc = "done"
  /\ lines = <<>>
  /\ buffer = <<>>
  /\ headingStack = <<>>
  /\ currentPath = <<>>
  /\ \E S \in (SUBSET Names) \ {{}} :
       /\ metadata \in [S -> Entries]
       /\ keyOrder \in KeyOrders(S)
  /\ prePass = metadata
  /\ passes = 0
  /\ bufStart = 0
  /\ origin = <<>>
  /\ ctx = Idle
  /\ wrap = Idle

BackfillPass ==
  /\ passes < MaxPasses
  /\ prePass' = metadata
  /\ metadata' = Backfill(metadata, keyOrder)
  /\ passes' = passes + 1
  /\ UNCHANGED <<ctx, wrap, defn, pc, lines, buffer, headingStack, currentPath,
                 keyOrder, bufStart, origin>>

NextPass == BackfillPass

SpecPass == InitPass /\ [][NextPass]_vars

ChildPathOf(n) ==
  IF prePass[n].category = <<>> THEN n ELSE prePass[n].category \o PathSep \o n

KidsOf(n) ==
  {c \in DOMAIN prePass : c # n /\ prePass[c].category = ChildPathOf(n)}

KidList(n) == SelectSeq(keyOrder, LAMBDA c : c \in KidsOf(n))

\* C4: the pass sets the description of entry n to "Entries: " and the
\* ", "-joined names of exactly the other entries whose category equals n's
\* child path, only when n's description is empty or blank and such an entry
\* exists; every other description, every other field and the set of names
\* are as before the pass.
C4_BackfillListsExactChildren ==
  passes >= 1 =>
    /\ DOMAIN metadata = DOMAIN prePass
    /\ \A n \in DOMAIN prePass :
         /\ metadata[n].description =
              IF Trim(prePass[n].description) = <<>> /\ KidsOf(n) # {}
              THEN EntriesPrefix \o Join(KidList(n), ListSep)
              ELSE prePass[n].description
         /\ metadata[n].category = prePass[n].category
         /\ metadata[n].properties = prePass[n].properties
         /\ metadata[n].imageUrl = prePass[n].imageUrl

C4_Witness ==
  /\ passes = 1
  /\ keyOrder = <<<<"A">>, <<"B">>, <<"C">>>>
  /\ prePass[<<"A">>] = [description |-> <<>>, properties |-> <<>>,
                         category |-> <<>>, imageUrl |-> Null]
  /\ prePass[<<"B">>].description = <<"d">>
  /\ prePass[<<"B">>].category = <<"A">>
  /\ prePass[<<"C">>].description = <<>>
  /\ prePass[<<"C">>].category = <<"A">>
  /\ metadata[<<"A">>].description = EntriesPrefix \o <<"B", ",", " ", "C">>
  /\ metadata[<<"B">>].description = <<"d">>
  /\ metadata[<<"C">>].description = <<>>

\* C5: a second backfill pass over the result of the first changes nothing:
\* every entry, field by field, is the same after two passes as after one.
C5_BackfillIdempotent ==
  passes >= 2 => metadata = prePass

C5_Witness ==
  /\ passes = 2
  /\ \E n \in DOMAIN metadata :
       /\ Len(metadata[n].description) > Len(EntriesPrefix)
       /\ SubSeq(metadata[n].description, 1, Len(EntriesPrefix)) = EntriesPrefix
  /\ \E n \in DOMAIN metadata : metadata[n].description = <<>>

(* ---------------- property documents (SpecProps) ----------------------- *)
PropTexts ==
  {<<"n">>, <<"d">>,
   <<"k", ":", "v">>,
   <<"k", ":", " ", "w", ":", "z">>,
   <<"_", "k", ":", "v">>,
   <<":", "v">>,
   <<"k", ":">>}

PropBlocks ==
  {Block(t, NORMAL_TEXT, Null) : t \in PropTexts}
    \cup {Block(<<>>, NORMAL_TEXT, Null), Block(<<"n">>, 1, Null)}

PropHeading == \E b \in PropBlocks : Len(lines) < MaxPropLines /\ HeadingLine(b)

PropBlank == \E b \in PropBlocks : Len(lines) < MaxPropLines /\ BlankLine(b)

PropOther == \E b \in PropBlocks : Len(lines) < MaxPropLines /\ OtherLine(b)

NextProps == PropHeading \/ PropBlank \/ PropOther \/ EndOfInput

SpecProps == Init /\ [][NextProps]_vars

\* The buffer an entry was flushed from, after the leading trim.
BufOf(n) == LeadingTrim(defn, SubSeq(lines, origin[n].from, origin[n].to))

\* Positions (1-based) of the property scan of a buffer, and of its stop
\* markers.
ScanRange(buf) == (StartIndex(buf) + 1)..Len(buf)

Markers(buf) == {i \in ScanRange(buf) : Len(buf[i].text) > 0 /\ buf[i].text[1] = "_"}

FirstMarker(buf) == CHOOSE i \in Markers(buf) : \A j \in Markers(buf) : i <= j

BeforeMarker(buf) ==
  IF Markers(buf) = {} THEN buf ELSE SubSeq(buf, 1, FirstMarker(buf) - 1)

\* C6: the property scan halts at the first scanned line that starts with
\* "_": an entry has exactly the properties of its buffer cut off before
\* that line, so properties collected before the marker are kept and no
\* line at or after it adds one.
C6_StopMarkerHaltsProperties ==
  \A n \in DOMAIN metadata :
    metadata[n].properties = EntryOf(BeforeMarker(BufOf(n)), <<>>).properties

C6_Witness ==
  /\ pc = "done"
  /\ lines = <<N(<<"n">>), N(<<"k", ":", "v">>), N(<<"_", "k", ":", "v">>),
               N(<<"k", ":", " ", "w", ":", "z">>)>>
  /\ metadata[<<"n">>].properties = (<<"k">> :> <<"v">>)

\* The first colon of a line, and the trimmed texts on its two sides.
FirstColon(t) == CHOOSE i \in 1..Len(t) : t[i] = ":" /\ \A j \in 1..(i - 1) : t[j] # ":"

KeyText(t) == Trim(SubSeq(t, 1, FirstColon(t) - 1))

ValText(t) == Trim(SubSeq(t, FirstColon(t) + 1, Len(t)))

IsProperty(t) ==
  (\E i \in 1..Len(t) : t[i] = ":") /\ KeyText(t) # <<>> /\ ValText(t) # <<>>

Scanned(buf) ==
  {i \in ScanRange(buf) : \A j \in Markers(buf) : i < j}

PropertyLines(buf) == {i \in Scanned(buf) : IsProperty(buf[i].text)}

LastWithKey(buf, k) ==
  CHOOSE i \in PropertyLines(buf) :
    /\ KeyText(buf[i].text) = k
    /\ \A j \in PropertyLines(buf) : KeyText(buf[j].text) = k => j <= i

\* C10: a scanned line is split at its first ":" only: the key is the
\* trimmed text before it and the value the trimmed text after it, later
\* colons included; it is recorded only when both are non-empty, a repeated
\* key keeps the value of its last line, and lines without ":" add nothing.
C10_SplitAtFirstColon ==
  \A n \in DOMAIN metadata :
    LET buf == BufOf(n)
        props == metadata[n].properties
    IN  /\ DOMAIN props = {KeyText(buf[i].text) : i \in PropertyLines(buf)}
        /\ \A k \in DOMAIN props : props[k] = ValText(buf[LastWithKey(buf, k)].text)

C10_Witness ==
  /\ pc = "done"
  /\ lines = <<N(<<"n">>), N(<<"k", ":", "v">>), N(<<":", "v">>),
               N(<<"k", ":", " ", "w", ":", "z">>)>>
  /\ metadata[<<"n">>].properties = (<<"k">> :> <<"w", ":", "z">>)

(* ------------------ image documents (SpecImage) ------------------------ *)
ImageBlocks ==
  {Block(<<>>, NORMAL_TEXT, Null),
   Block(<<"n">>, 1, Null),
   Block(<<>>, 1, Null),
   Block(<<"n">>, NORMAL_TEXT, Null),
   Block(<<"d">>, NORMAL_TEXT, Null),
   Block(<<>>, NORMAL_TEXT, "i1"),
   Block(<<"_">>, NORMAL_TEXT, Null),
   Block(<<"_">>, NORMAL_TEXT, "i2"),
   Block(<<"k", ":", "v">>, NORMAL_TEXT, "i3")}

ImageHeading == \E b \in ImageBlocks : Len(lines) < MaxImageLines /\ HeadingLine(b)

ImageBlank == \E b \in ImageBlocks : Len(lines) < MaxImageLines /\ BlankLine(b)

ImageOther == \E b \in ImageBlocks : Len(lines) < MaxImageLines /\ OtherLine(b)

NextImage == ImageHeading \/ ImageBlank \/ ImageOther \/ EndOfInput

SpecImage == Init /\ [][NextImage]_vars

WithImage(buf, last) == {i \in 1..last : buf[i].imageUrl # Null}

FirstImage(buf, last) ==
  IF WithImage(buf, last) = {} THEN Null
  ELSE buf[CHOOSE i \in WithImage(buf, last) :
             \A j \in WithImage(buf, last) : i <= j].imageUrl

\* C7 as claimed: an entry's image comes neither from the stop-marker line
\* nor from a line after it; with no image before the marker it is null.
C7_ImageBeforeMarkerOnly ==
  \A n \in DOMAIN metadata :
    Markers(BufOf(n)) # {} =>
      metadata[n].imageUrl = FirstImage(BufOf(n), FirstMarker(BufOf(n)) - 1)

\* C7 as amended: an entry's image never comes from a line after the
\* stop-marker line; the marker line itself is still looked at, so the image
\* is that of the first line, up to and including the marker, that carries
\* one, and null when there is none.
C7_ImageUpToMarker ==
  \A n \in DOMAIN metadata :
    Markers(BufOf(n)) # {} =>
      metadata[n].imageUrl = FirstImage(BufOf(n), FirstMarker(BufOf(n)))

C7_Witness ==
  /\ pc = "done"
  /\ lines = <<Block(<<"n">>, NORMAL_TEXT, Null), Block(<<"d">>, NORMAL_TEXT, Null),
               Block(<<"_">>, NORMAL_TEXT, Null),
               Block(<<"k", ":", "v">>, NORMAL_TEXT, "i3")>>
  /\ metadata[<<"n">>].imageUrl = Null

\* The first line of a flushed span that is not an empty, imageless line.
Padding(b) == b.text = <<>> /\ b.imageUrl = Null

FirstKept(from, to) ==
  CHOOSE i \in from..to :
    ~Padding(lines[i]) /\ \A j \in from..(i - 1) : Padding(lines[j])

\* C8: the flush discards only leading lines with empty text and no image;
\* a leading line with empty text and an image stays first, so its buffer
\* yields no entry.
C8_ImageOnlyLeadKept ==
  \A n \in DOMAIN metadata :
    lines[FirstKept(origin[n].from, origin[n].to)].text # <<>>

(* The buffers of the input, read off the lines: a span opens at a heading *)
(* or at a non-blank line that follows a blank line or starts the input,   *)
(* and runs up to the next heading, blank line or end of input.            *)
IsOpener(f) ==
  \/ IsHeading(lines[f])
  \/ /\ ~IsBlank(lines[f])
     /\ f = 1 \/ (~IsHeading(lines[f - 1]) /\ IsBlank(lines[f - 1]))

Continues(i) == ~IsHeading(lines[i]) /\ ~IsBlank(lines[i])

SpanEnd(f) ==
  CHOOSE t \in f..Len(lines) :
    /\ \A i \in (f + 1)..t : Continues(i)
    /\ t = Len(lines) \/ ~Continues(t + 1)

SpanOf(f) == SubSeq(lines, f, SpanEnd(f))

FlushedSpans ==
  {f \in 1..Len(lines) :
     IsOpener(f) /\ (SpanEnd(f) < Len(lines) \/ pc = "done")}

SpansNamed(n) ==
  {f \in FlushedSpans : Emits(defn, SpanOf(f)) /\ NameOf(defn, SpanOf(f)) = n}

LastSpanNamed(n) ==
  CHOOSE f \in SpansNamed(n) : \A g \in SpansNamed(n) : g <= f

Built == IF pc = "done" THEN prePass ELSE metadata

\* C9: duplicate names are last-write-wins: before backfill the map holds,
\* for each name, exactly the description, properties, category and image
\* computed from the last buffer flushed under that name, and nothing of an
\* earlier buffer of that name.
C9_LastBufferWins ==
  /\ DOMAIN Built = {NameOf(defn, SpanOf(f)) :
                       f \in {g \in FlushedSpans : Emits(defn, SpanOf(g))}}
  /\ \A n \in DOMAIN Built :
       Built[n] = EntryOf(LeadingTrim(defn, SpanOf(LastSpanNamed(n))),
                          OpenPath(LastSpanNamed(n)))

C9_Witness ==
  /\ pc = "done"
  /\ lines = <<Block(<<"n">>, 1, Null), Block(<<"k", ":", "v">>, NORMAL_TEXT, "i3"),
               Block(<<"n">>, 1, Null), Block(<<"d">>, NORMAL_TEXT, Null)>>
  /\ prePass[<<"n">>] = [description |-> <<"d">>, properties |-> <<>>,
                         category |-> <<>>, imageUrl |-> Null]

(* Totality of the parser.  lines.forEach takes the blocks one at a time, *)
(* so a run is a finite number of steps: each step consumes exactly one     *)
(* block or is the return, and the return is possible in every state that   *)
(* is still scanning.                                                       *)
BlankOnly ==
  \A i \in 1..Len(lines) : Padding(lines[i]) /\ lines[i].style = NORMAL_TEXT

ConsumesOne ==
  \/ pc' = "done" /\ lines' = lines
  \/ /\ pc' = "scan"
     /\ Len(lines') = Len(lines) + 1
     /\ SubSeq(lines', 1, Len(lines)) = lines

\* C11: the parser terminates and returns a map, never an error: each block
\* is consumed once, a flush adds at most one entry, and an input with no
\* block or with only blank imageless NORMAL_TEXT blocks yields the empty map.
C11_ParserTotal ==
  [][/\ pc' # "error"
     /\ ConsumesOne
     /\ Cardinality(DOMAIN Built') <= Cardinality(DOMAIN Built) + 1
     /\ DOMAIN Built \subseteq DOMAIN Built'
     /\ (pc' = "done" /\ BlankOnly) => metadata' = <<>>]_vars

C11_Witness ==
  /\ pc = "done"
  /\ Len(lines) = 3
  /\ BlankOnly
  /\ metadata = <<>>

(* A buffer that names nothing: nothing is left after the leading trim, or *)
(* the first line left has empty text.                                      *)
Nameless(buf) ==
  \/ \A i \in 1..Len(buf) : Padding(buf[i])
  \/ LeadingTrim(defn, buf) = <<>>
  \/ LeadingTrim(defn, buf)[1].text = <<>>

\* C12: no entry has the empty name, and the flush of a buffer that names
\* nothing leaves the map as it was.
C12_NoEmptyName ==
  [][/\ <<>> \notin DOMAIN metadata'
     /\ (buffer # <<>> /\ Nameless(buffer)) => Built' = Built]_vars

C12_Witness ==
  /\ pc = "done"
  /\ defn = 1
  /\ lines = <<Block(<<>>, NORMAL_TEXT, "i1"), Block(<<"n">>, NORMAL_TEXT, Null)>>
  /\ metadata = <<>>

(* ---------------- headings, descriptions, blank lines ------------------ *)
HasColon(t) == \E i \in 1..Len(t) : t[i] = ":"

Underscored(t) == Len(t) > 0 /\ t[1] = "_"

TitledHeadings ==
  {i \in 1..Len(lines) : IsHeading(lines[i]) /\ lines[i].text # <<>>}

\* C16: in the returned map every heading with a non-empty title has an
\* entry under its title, and when that entry is the one flushed from the
\* heading's own buffer, its description is empty or the text of the line
\* right after the heading, and each of its properties is the key and value
\* of a line between the heading and the next heading, blank line or end.
C16_HeadingBecomesEntry ==
  pc = "done" =>
    \A i \in TitledHeadings :
      /\ lines[i].text \in DOMAIN metadata
      /\ LastSpanNamed(lines[i].text) = i =>
           LET e == prePass[lines[i].text]
               follow == (i + 1)..SpanEnd(i)
           IN  /\ e.description \in
                    {<<>>} \cup {lines[j].text : j \in follow \cap {i + 1}}
               /\ \A k \in DOMAIN e.properties :
                    \E j \in follow :
                      /\ IsProperty(lines[j].text)
                      /\ KeyText(lines[j].text) = k
                      /\ ValText(lines[j].text) = e.properties[k]

C16_Witness ==
  /\ pc = "done"
  /\ lines = <<N(<<"d">>), H(1, <<"n">>), N(<<"d">>), N(<<"k", ":", "v">>)>>
  /\ metadata[<<"n">>] = [description |-> <<"d">>,
                          properties |-> (<<"k">> :> <<"v">>),
                          category |-> <<>>, imageUrl |-> Null]

\* C17: the second line of a flushed buffer is the entry's description
\* exactly when it exists, has no ":" and does not start with "_"; otherwise
\* the description is empty before backfill and the second line goes to the
\* property scan: a stop marker leaves the properties empty, a valid
\* key: value line is recorded.
C17_SecondLineDescription ==
  \A n \in DOMAIN Built :
    LET buf == BufOf(n)
        e == Built[n]
    IN  IF Len(buf) >= 2 /\ ~HasColon(buf[2].text) /\ ~Underscored(buf[2].text)
        THEN e.description = buf[2].text
        ELSE /\ e.description = <<>>
             /\ Len(buf) >= 2 =>
                  IF Underscored(buf[2].text) THEN e.properties = <<>>
                  ELSE IsProperty(buf[2].text) =>
                         KeyText(buf[2].text) \in DOMAIN e.properties

C17_Witness ==
  /\ pc = "done"
  /\ lines = <<N(<<"n">>), N(<<"k", ":", "v">>), N(<<"d">>)>>
  /\ metadata[<<"n">>].description = <<>>
  /\ metadata[<<"n">>].properties = (<<"k">> :> <<"v">>)

BlankArrives ==
  /\ Len(lines') = Len(lines) + 1
  /\ lines'[Len(lines')] = Block(<<>>, NORMAL_TEXT, Null)

\* C18: a blank imageless non-heading line that arrives while the buffer is
\* empty changes neither the buffer, the heading stack, the current path nor
\* the map.
C18_BlankOnEmptyBufferNoOp ==
  [][(BlankArrives /\ buffer = <<>>) =>
       UNCHANGED <<buffer, headingStack, currentPath, metadata, keyOrder>>]_vars

C18_Witness ==
  /\ pc = "scan"
  /\ lines = <<H(1, <<"A">>), H(2, <<"B">>), Block(<<>>, NORMAL_TEXT, Null),
               Block(<<>>, NORMAL_TEXT, Null)>>
  /\ currentPath = <<"A", " ", ">", " ", "B">>
  /\ buffer = <<>>

(* The pass with the parents visited in the order `visit`, the children    *)
(* listed in the order of the keys.                                        *)
RECURSIVE BackfillVisiting(_, _, _, _)
BackfillVisiting(map, visit, keys, i) ==
  IF i > Len(visit) THEN map
  ELSE BackfillVisiting(BackfillOne(map, keys, visit[i]), visit, keys, i + 1)

\* C20: the pass changes nothing but descriptions: names, categories,
\* properties and images are as before; and visiting the entries in any
\* other order gives the same map.
C20_BackfillFrame ==
  passes >= 1 =>
    /\ DOMAIN metadata = DOMAIN prePass
    /\ \A n \in DOMAIN prePass :
         [metadata[n] EXCEPT !.description = <<>>] =
           [prePass[n] EXCEPT !.description = <<>>]
    /\ \A visit \in KeyOrders(DOMAIN prePass) :
         BackfillVisiting(prePass, visit, keyOrder, 1) = metadata

C20_Witness ==
  /\ passes = 1
  /\ keyOrder = <<<<"B">>, <<"A">>, <<"C">>>>
  /\ prePass[<<"A">>].description = <<>>
  /\ prePass[<<"A">>].category = <<>>
  /\ prePass[<<"B">>].description = <<>>
  /\ prePass[<<"B">>].category = <<"A">>
  /\ prePass[<<"C">>].category = <<"A", " ", ">", " ", "B">>
  /\ prePass[<<"A">>].properties = (<<"k">> :> <<"v">>)
  /\ prePass[<<"B">>].imageUrl = "i1"
  /\ metadata[<<"A">>].description = EntriesPrefix \o <<"B">>
  /\ metadata[<<"B">>].description = EntriesPrefix \o <<"C">>

(* ------------------- getCurrentContext (SpecContext) ------------------- *)
\* The argument list of a call: <<>> when lookaround is omitted.
Undefined == <<>>

SafetyLimit == 100

parserVars == <<defn, pc, lines, buffer, headingStack, currentPath, metadata,
                keyOrder, prePass, passes, bufStart, origin>>

\* The children of the body: paragraphs, list items and other elements.
Para(t) == [type |-> "PARAGRAPH", text |-> t]

ListItem(t) == [type |-> "LIST_ITEM", text |-> t]

Table == [type |-> "TABLE", text |-> <<"t">>]

\* A range element or the cursor's element, with the index in the document
\* of the paragraph or list item it lies in (0 when it lies in none).
Elem(ty, t, blk) == [type |-> ty, text |-> t, block |-> blk]

getBlockParent(el) == el.block

getTextSafe(doc, i) ==
  IF i \notin 1..Len(doc) THEN <<>>
  ELSE IF doc[i].type \in {"PARAGRAPH", "LIST_ITEM"} THEN doc[i].text
  ELSE <<>>

Limit(lookaround) ==
  IF lookaround = Undefined \/ lookaround[1] = 0 THEN 0 ELSE lookaround[1]

WalkGuardInclusive(count, safety, limit) ==
  count <= limit /\ safety < SafetyLimit

WalkGuardNoSafety(count, safety, limit) == count < limit

WalkGuard(count, safety, limit) == count < limit /\ safety < SafetyLimit

HasContent(txt) == Len(Trim(txt)) > 0

NextCountEvery(count, txt) == count + 1

NextCount(count, txt) == IF HasContent(txt) THEN count + 1 ELSE count

RECURSIVE SelectionText(_)
SelectionText(elements) ==
  IF elements = <<>> THEN <<>>
  ELSE (IF elements[1].type \in {"PARAGRAPH", "LIST_ITEM", "TEXT"}
        THEN elements[1].text \o <<" ">>
        ELSE <<>>) \o SelectionText(Tail(elements))

StartBlock(at) ==
  IF at.kind = "selection"
  THEN IF Len(at.elements) > 0 THEN getBlockParent(at.elements[1]) ELSE 0
  ELSE IF at.kind = "cursor" THEN getBlockParent(at.elements[1])
  ELSE 0

EndBlock(at) ==
  IF at.kind = "selection"
  THEN IF Len(at.elements) > 0
       THEN getBlockParent(at.elements[Len(at.elements)])
       ELSE 0
  ELSE StartBlock(at)

CoreText(doc, at) ==
  IF at.kind = "selection" THEN SelectionText(at.elements)
  ELSE IF at.kind = "cursor" /\ StartBlock(at) # 0
       THEN getTextSafe(doc, StartBlock(at))
  ELSE <<>>

\* The documents: a paragraph "c" between two chains of siblings, each
\* chain a run of empty siblings, or two runs each followed by a sibling
\* with text.
Hello == <<"h", "e", "l", "l", "o">>

Gaps == {0, 2, SafetyLimit - 1, SafetyLimit}

BlankKinds == {Para(<<>>), Para(<<" ">>), Table}

Repeat(x, n) == [i \in 1..n |-> x]

Reverse(q) == [i \in 1..Len(q) |-> q[Len(q) + 1 - i]]

Chains(kinds) ==
  {Repeat(k, g) : k \in kinds, g \in Gaps}
    \cup {Repeat(k, g1) \o <<Para(Hello)>> \o Repeat(k, g2) \o <<ListItem(<<"b">>)>> :
            k \in kinds, g1 \in Gaps, g2 \in Gaps}

Places(doc, at) ==
  {[kind |-> "none", elements |-> <<>>],
   [kind |-> "cursor", elements |-> <<Elem("TEXT", <<"c">>, at)>>],
   [kind |-> "selection", elements |-> <<>>],
   [kind |-> "selection", elements |-> <<Elem("PARAGRAPH", <<"c">>, at)>>],
   [kind |-> "selection", elements |-> <<Elem("TEXT", <<"c">>, at)>>],
   [kind |-> "selection", elements |-> <<Elem("TABLE", <<"t">>, 0)>>],
   [kind |-> "selection",
    elements |-> <<Elem("TEXT", <<"c">>, at), Elem("TABLE", <<"t">>, 0)>>]}
    \cup {[kind |-> "selection",
           elements |-> <<Elem("TEXT", <<"c">>, at),
                          Elem(doc[at + 1].type, doc[at + 1].text, at + 1)>>] :
            x \in {y \in {at + 1} : y <= Len(doc)}}
    \cup {[kind |-> "selection",
           elements |-> <<Elem("TEXT", <<"c">>, at),
                          Elem(doc[at + 1].type, doc[at + 1].text, at + 1),
                          Elem("TABLE", <<"t">>, 0)>>] :
            x \in {y \in {at + 2} : y <= Len(doc) /\ doc[y] = Table}}

\* The documents, with the index of the paragraph "c".
Docs ==
  {[blocks |-> Reverse(before) \o <<Para(<<"c">>), ListItem(<<"e">>)>>,
    at |-> Len(before) + 1] : before \in Chains(BlankKinds)}
    \cup {[blocks |-> <<Para(<<"a">>), Para(<<"c">>)>> \o after, at |-> 2] :
             after \in Chains({Para(<<>>)})}
    \cup {[blocks |-> <<Para(<<"a">>), Para(<<"c">>), Para(<<"d">>), Table,
                        Para(<<"f">>)>>,
            at |-> 2]}

Lookarounds == {Undefined} \cup {<<n>> : n \in 0..MaxLookaround}

InitContext ==
  /\ defn = 2
  /\ pc = "scan"
  /\ lines = <<>>
  /\ buffer = <<>>
  /\ headingStack = <<>>
  /\ currentPath = <<>>
  /\ metadata = <<>>
  /\ keyOrder = <<>>
  /\ prePass = <<>>
  /\ passes = 0
  /\ bufStart = 0
  /\ origin = <<>>
  /\ wrap = Idle
  /\ \E doc \in Docs :
       \E at \in Places(doc.blocks, doc.at), la \in Lookarounds :
         ctx = [pc |-> "call", doc |-> doc.blocks, at |-> at, lookaround |-> la,
                limit |-> 0, startBlock |-> 0, endBlock |-> 0,
                coreText |-> <<>>, curr |-> 0, count |-> 0, safety |-> 0,
                prefix |-> <<>>, suffix |-> <<>>, backSteps |-> 0,
                result |-> <<>>]

\* Section 1 of the function: the core text and the boundary blocks, and
\* the early return when no container block is found.
Capture ==
  /\ ctx.pc = "call"
  /\ ctx' = [ctx EXCEPT !.limit = Limit(ctx.lookaround),
                        !.startBlock = StartBlock(ctx.at),
                        !.endBlock = EndBlock(ctx.at),
                        !.coreText = CoreText(ctx.doc, ctx.at),
                        !.curr = StartBlock(ctx.at),
                        !.pc = IF StartBlock(ctx.at) = 0 THEN "done" ELSE "back"]
  /\ UNCHANGED <<parserVars, wrap>>

\* One iteration of the backward loop that finds a previous sibling.
LookBackwards ==
  /\ ctx.pc = "back"
  /\ WalkGuard(ctx.count, ctx.safety, ctx.limit)
  /\ ctx.curr - 1 >= 1
  /\ LET txt == getTextSafe(ctx.doc, ctx.curr - 1)
     IN  ctx' = [ctx EXCEPT !.curr = ctx.curr - 1,
                            !.prefix = IF HasContent(txt)
                                       THEN txt \o <<" ">> \o ctx.prefix
                                       ELSE ctx.prefix,
                            !.count = NextCount(ctx.count, txt),
                            !.safety = ctx.safety + 1]
  /\ UNCHANGED <<parserVars, wrap>>

\* The backward loop ends, by its condition or by the break.
EndBackwards ==
  /\ ctx.pc = "back"
  /\ ~WalkGuard(ctx.count, ctx.safety, ctx.limit) \/ ctx.curr - 1 < 1
  /\ ctx' = [ctx EXCEPT !.pc = "forth",
                        !.backSteps = ctx.safety,
                        !.curr = IF ctx.endBlock # 0 THEN ctx.endBlock
                                 ELSE ctx.startBlock,
                        !.count = 0,
                        !.safety = 0]
  /\ UNCHANGED <<parserVars, wrap>>

\* One iteration of the forward loop that finds a next sibling.
LookForwards ==
  /\ ctx.pc = "forth"
  /\ WalkGuard(ctx.count, ctx.safety, ctx.limit)
  /\ ctx.curr + 1 <= Len(ctx.doc)
  /\ LET txt == getTextSafe(ctx.doc, ctx.curr + 1)
     IN  ctx' = [ctx EXCEPT !.curr = ctx.curr + 1,
                            !.suffix = IF HasContent(txt)
                                       THEN ctx.suffix \o <<" ">> \o txt
                                       ELSE ctx.suffix,
                            !.count = NextCount(ctx.count, txt),
                            !.safety = ctx.safety + 1]
  /\ UNCHANGED <<parserVars, wrap>>

\* The forward loop ends and the function returns.
Return ==
  /\ ctx.pc = "forth"
  /\ ~WalkGuard(ctx.count, ctx.safety, ctx.limit) \/ ctx.curr + 1 > Len(ctx.doc)
  /\ ctx' = [ctx EXCEPT !.pc = "done",
                        !.result = ctx.prefix \o <<" ">> \o ctx.coreText
                                     \o <<" ">> \o ctx.suffix]
  /\ UNCHANGED <<parserVars, wrap>>

NextContext == Capture \/ LookBackwards \/ EndBackwards \/ LookForwards \/ Return

SpecContext == InitContext /\ [][NextContext]_vars

(* The siblings with text, read off the document: paragraphs and list     *)
(* items whose text has a character other than a space.                    *)
Texted(i) ==
  /\ ctx.doc[i].type \in {"PARAGRAPH", "LIST_ITEM"}
  /\ \E j \in 1..Len(ctx.doc[i].text) : ctx.doc[i].text[j] # " "

Anchor == IF ctx.endBlock # 0 THEN ctx.endBlock ELSE ctx.startBlock

NearBefore ==
  {i \in 1..(ctx.startBlock - 1) : ctx.startBlock - i <= SafetyLimit /\ Texted(i)}

NearAfter ==
  {i \in (Anchor + 1)..Len(ctx.doc) : i - Anchor <= SafetyLimit /\ Texted(i)}

TakenBefore ==
  {i \in NearBefore : Cardinality({j \in NearBefore : j > i}) < ctx.limit}

TakenAfter ==
  {i \in NearAfter : Cardinality({j \in NearAfter : j < i}) < ctx.limit}

Lowest(S) == CHOOSE m \in S : \A x \in S : m <= x

RECURSIVE GatherBefore(_)
GatherBefore(S) ==
  IF S = {} THEN <<>>
  ELSE ctx.doc[Lowest(S)].text \o <<" ">> \o GatherBefore(S \ {Lowest(S)})

RECURSIVE GatherAfter(_)
GatherAfter(S) ==
  IF S = {} THEN <<>>
  ELSE <<" ">> \o ctx.doc[Lowest(S)].text \o GatherAfter(S \ {Lowest(S)})

Returned == ctx.pc = "done" /\ ctx.startBlock # 0

\* C13: with lookaround 0 or omitted and a container block found, the
\* result is exactly " " + coreText + " ": no sibling is visited, nothing
\* is prepended or appended.
C13_ZeroLookaround ==
  (Returned /\ ctx.lookaround \in {<<>>, <<0>>}) =>
    /\ ctx.result = <<" ">> \o ctx.coreText \o <<" ">>
    /\ ctx.backSteps = 0
    /\ ctx.safety = 0
    /\ ctx.at.kind = "cursor" => ctx.result = <<" ", "c", " ">>

C13_Witness ==
  /\ Returned
  /\ ctx.lookaround = <<>>
  /\ ctx.at.kind = "cursor"
  /\ ctx.startBlock > 1
  /\ Texted(ctx.startBlock - 1)
  /\ Texted(ctx.startBlock + 1)
  /\ ctx.result = <<" ", "c", " ">>

\* C14: siblings whose trimmed text is empty are passed over without being
\* counted: the prefix is the texts of the nearest k siblings with text
\* before the start block, k the smaller of the limit and the number of
\* such siblings among the nearest 100, in document order, and the suffix
\* likewise after the end block.  With the previous siblings "hello", "",
\* "" and limit 1 the backward walk takes three steps and yields "hello".
C14_SkipsEmptySiblings ==
  Returned =>
    /\ ctx.prefix = GatherBefore(TakenBefore)
    /\ ctx.suffix = GatherAfter(TakenAfter)
    /\ (/\ ctx.limit = 1
        /\ ctx.startBlock > 3
        /\ ~Texted(ctx.startBlock - 1)
        /\ ~Texted(ctx.startBlock - 2)
        /\ ctx.doc[ctx.startBlock - 3] = Para(Hello)) =>
         ctx.backSteps = 3 /\ ctx.prefix = Hello \o <<" ">>

C14_Witness ==
  /\ Returned
  /\ ctx.limit = 1
  /\ ctx.startBlock > 3
  /\ ctx.doc[ctx.startBlock - 1] = Para(<<" ">>)
  /\ ctx.doc[ctx.startBlock - 2] = Para(<<" ">>)
  /\ ctx.doc[ctx.startBlock - 3] = Para(Hello)
  /\ ctx.backSteps = 3
  /\ ctx.prefix = Hello \o <<" ">>

\* C15: a walk takes at most 100 sibling steps whatever the limit; its
\* counter counts every sibling visited, with text or not; so a sibling
\* with text more than 100 steps away is never included, even when fewer
\* than limit siblings were collected.
C15_WalkCapped ==
  /\ ctx.pc \in {"back", "forth", "done"} =>
       /\ ctx.safety <= SafetyLimit
       /\ ctx.backSteps <= SafetyLimit
  /\ ctx.pc = "back" => ctx.safety = ctx.startBlock - ctx.curr
  /\ ctx.pc = "forth" =>
       /\ ctx.safety = ctx.curr - Anchor
       /\ ctx.backSteps = Min(SafetyLimit, ctx.startBlock - 1)
            \/ Cardinality(NearBefore) >= ctx.limit
  /\ Returned =>
       /\ NearBefore = {} => ctx.prefix = <<>>
       /\ NearAfter = {} => ctx.suffix = <<>>

C15_Witness ==
  /\ Returned
  /\ ctx.limit >= 1
  /\ ctx.startBlock > SafetyLimit + 1
  /\ ctx.doc[ctx.startBlock - SafetyLimit - 1] = Para(Hello)
  /\ ctx.backSteps = SafetyLimit
  /\ ctx.prefix = <<>>

(* ------------------- getMetadataContent (SpecWrapper) ------------------ *)
DefaultTabName == "Metadata"

TabTitles == {DefaultTabName, "Notes"}

\* The argument list of a call: <<>> when tabName is omitted.
TabNames == {<<>>, <<"">>} \cup {<<t>> : t \in TabTitles}

TargetTabName(tabName) ==
  IF tabName = <<>> \/ tabName[1] = "" THEN DefaultTabName ELSE tabName[1]

\* A tab of the fetched document; documentTab tells whether its content
\* came with it.
Tab(title, documentTab) == [title |-> title, documentTab |-> documentTab]

TabLists ==
  UNION {[1..n -> {Tab(t, d) : t \in TabTitles, d \in BOOLEAN}] : n \in 0..MaxTabs}

\* The index of the first tab with the title, 0 when there is none.
FindTabOrFirst(tabs, title) ==
  IF \E i \in 1..Len(tabs) : tabs[i].title = title
  THEN CHOOSE i \in 1..Len(tabs) :
         tabs[i].title = title /\ \A j \in 1..(i - 1) : tabs[j].title # title
  ELSE IF Len(tabs) > 0 THEN 1 ELSE 0

FindTab(tabs, title) ==
  IF \E i \in 1..Len(tabs) : tabs[i].title = title
  THEN CHOOSE i \in 1..Len(tabs) :
         tabs[i].title = title /\ \A j \in 1..(i - 1) : tabs[j].title # title
  ELSE 0

\* The two shapes of the result; parsed lists the bodies handed to
\* parseBodyContent (0 the document body, i the body of tab i).
Items(body) == [items |-> <<body>>, error |-> <<>>, parsed |-> <<body>>]

Failure(message) == [items |-> <<>>, error |-> message, parsed |-> <<>>]

getMetadataContent(tabName, api) ==
  IF api.fetch = "throws"
  THEN Failure(<<"Error accessing tab: ", "fetch">>)
  ELSE IF ~api.hasTabs
  THEN IF api.hasBody THEN Items(0)
       ELSE Failure(<<"Error accessing tab: ", "TypeError">>)
  ELSE IF FindTab(api.tabs, TargetTabName(tabName)) = 0
  THEN Failure(<<"Tab named '", TargetTabName(tabName), "' not found.">>)
  ELSE IF ~api.tabs[FindTab(api.tabs, TargetTabName(tabName))].documentTab
  THEN Failure(<<"Error accessing tab: ", "TypeError">>)
  ELSE Items(FindTab(api.tabs, TargetTabName(tabName)))

\* What Docs.Documents.get does: it throws, or delivers a document with or
\* without tabs, with or without a body.
Apis ==
  {[fetch |-> f, hasTabs |-> h, tabs |-> t, hasBody |-> b] :
     f \in {"ok", "throws"}, h \in BOOLEAN, t \in TabLists, b \in BOOLEAN}

InitWrapper ==
  /\ defn = 2
  /\ pc = "scan"
  /\ lines = <<>>
  /\ buffer = <<>>
  /\ headingStack = <<>>
  /\ currentPath = <<>>
  /\ metadata = <<>>
  /\ keyOrder = <<>>
  /\ prePass = <<>>
  /\ passes = 0
  /\ bufStart = 0
  /\ origin = <<>>
  /\ ctx = Idle
  /\ \E tabName \in TabNames, api \in Apis :
       /\ api.hasTabs \/ api.tabs = <<>>
       /\ wrap = [pc |-> "call", tabName |-> tabName, api |-> api,
                  result |-> Failure(<<>>)]

GetMetadataContent ==
  /\ wrap.pc = "call"
  /\ wrap' = [wrap EXCEPT !.pc = "done",
                          !.result = getMetadataContent(wrap.tabName, wrap.api)]
  /\ UNCHANGED <<parserVars, ctx>>

NextWrapper == GetMetadataContent

SpecWrapper == InitWrapper /\ [][NextWrapper]_vars

Fetched == wrap.pc = "done" /\ wrap.api.fetch = "ok"

Wanted == IF wrap.tabName \in {<<>>, <<"">>} THEN "Metadata" ELSE wrap.tabName[1]

TabTitled ==
  /\ wrap.api.hasTabs
  /\ \E i \in 1..Len(wrap.api.tabs) : wrap.api.tabs[i].title = Wanted

OneOfItemsOrError ==
  (wrap.result.items = <<>>) # (wrap.result.error = <<>>)

\* C19 as claimed: a call returns items or an error, never both; a failed
\* fetch gives an error; and whenever the document has no section of the
\* wanted name (default "Metadata") the result is an error and the parser
\* has not been invoked.
C19_SectionMissingIsError ==
  wrap.pc = "done" =>
    /\ OneOfItemsOrError
    /\ wrap.api.fetch = "throws" => wrap.result.error # <<>>
    /\ (Fetched /\ ~TabTitled) =>
         wrap.result.error # <<>> /\ wrap.result.parsed = <<>>

\* C19 as amended: a call returns items or an error, never both; a failed
\* fetch gives an error; when the document has tabs and none is titled with
\* the wanted name (default "Metadata") the result is an error and the
\* parser has not been invoked; a document delivered without tabs has its
\* body parsed and returned as items, whatever the wanted name.
C19_MissingTabIsError ==
  wrap.pc = "done" =>
    /\ OneOfItemsOrError
    /\ wrap.api.fetch = "throws" => wrap.result.error # <<>>
    /\ (Fetched /\ wrap.api.hasTabs /\ ~TabTitled) =>
         wrap.result.error # <<>> /\ wrap.result.parsed = <<>>
    /\ (Fetched /\ ~wrap.api.hasTabs /\ wrap.api.hasBody) =>
         wrap.result.items = <<0>> /\ wrap.result.parsed = <<0>>

C19_Witness ==
  /\ wrap.pc = "done"
  /\ wrap.tabName = <<>>
  /\ wrap.api.fetch = "ok"
  /\ wrap.api.hasTabs
  /\ wrap.api.tabs = <<Tab("Notes", TRUE)>>
  /\ wrap.result = Failure(<<"Tab named '", "Metadata", "' not found.">>)

(* The selection read off the position: the containers of its range        *)
(* elements, the first and the last of them.                                *)
Containers == {ctx.at.elements[i].block : i \in 1..Len(ctx.at.elements)} \ {0}

Highest(S) == CHOOSE m \in S : \A x \in S : x <= m

AfterSelection ==
  {i \in (Highest(Containers) + 1)..Len(ctx.doc) :
     i - Highest(Containers) <= SafetyLimit /\ Texted(i)}

TakenAfterSelection ==
  {i \in AfterSelection :
     Cardinality({j \in AfterSelection : j < i}) < ctx.limit}

LastHasContainer ==
  ctx.at.elements # <<>> /\ ctx.at.elements[Len(ctx.at.elements)].block # 0

\* C21: the result reads in document order and never repeats the
\* selection: the prefix is made of blocks strictly before the first
\* container, farthest first; the suffix of blocks strictly after the last
\* selected container, nearest first; for a cursor startBlock = endBlock and
\* coreText is that block's text; for a selection over several blocks the
\* forward walk starts at the container of the last range element.
C21_DocumentOrderNoRepeat ==
  Returned =>
    /\ ctx.prefix = GatherBefore(TakenBefore)
    /\ \A i \in TakenBefore : i < Lowest(Containers)
    /\ ctx.suffix = GatherAfter(TakenAfterSelection)
    /\ ctx.result = ctx.prefix \o <<" ">> \o ctx.coreText \o <<" ">> \o ctx.suffix
    /\ ctx.at.kind = "cursor" =>
         /\ ctx.startBlock = ctx.endBlock
         /\ ctx.coreText = ctx.doc[ctx.startBlock].text
    /\ (ctx.at.kind = "selection" /\ Cardinality(Containers) > 1
          /\ LastHasContainer) =>
         ctx.curr - ctx.safety = ctx.at.elements[Len(ctx.at.elements)].block

\* The same for the positions whose last range element has a container.
DocumentOrderWithEndBlock == LastHasContainer => C21_DocumentOrderNoRepeat

====
